---- MODULE Spec2Model ----
(***************************************************************************)
(* Model of the traversal driver b_find (src/src/b_find.c) of              *)
(* Archive-Tar-Builder: the stat wrapper, the directory frame, the entry   *)
(* record, prefix substitution and the driver with its cleanup paths.      *)
(* Strings are sequences of one-character strings.                         *)
(***************************************************************************)
EXTENDS Integers, Sequences, FiniteSets, TLC

VARIABLES
    pc,                 \* position inside b_find
    path,               \* argument: on-disk starting path
    member_name,        \* argument: logical name of the starting path
    flags,              \* argument: flag bits
    hasErr,             \* b_builder_get_error(builder) != NULL
    severity,           \* the severity the visitor records when it returns < 0
    fs,                 \* the filesystem (never mutated during the call)
    clean_path,         \* b_path_clean(path) or NULL
    clean_member_name,  \* b_path_clean(member_name) or NULL
    live,               \* heap objects of b_find currently allocated
    frames,             \* every b_dir ever opened, by id: path, stream, cursor, destroy count
    dirs,               \* the frame stack: sequence of frame ids, top last
    dir,                \* local variable dir (id of the root frame, 0: not set)
    item,               \* the entry record being processed, or NoItem
    itemsLive,          \* number of entry records allocated and not freed
    st,                 \* file type of the root stat
    errno,              \* errno left by the last failing call
    errType,            \* type held by the error accumulator
    errs,               \* what b_error_set recorded, in order
    log,                \* visitor invocations, in order
    opens,              \* b_dir_open calls, in order: path and errno ("0": opened)
    readFails,          \* b_dir_read calls that failed after readdir gave an entry
    failedAt,           \* the call whose failure made b_find abort, or "none"
    faults,             \* allocation failures injected so far
    ub,                 \* a frame was destroyed twice (use after free, double free)
    ret                 \* << v >> once b_find returned v, NoRet before

vars == << pc, path, member_name, flags, hasErr, severity, fs, clean_path,
           clean_member_name, live, frames, dirs, dir, item, itemsLive, st,
           errno, errType, errs, log, opens, readFails, failedAt, faults, ub,
           ret >>

(***************************************************************************)
(* Bounds and inputs.                                                      *)
(***************************************************************************)
MaxFaults == 1

NULL == << "NULL" >>
NoItem == [name |-> NULL, path |-> NULL, mode |-> "none"]
NoRet == << >>

SLASH == << "/" >>
DOT == << "." >>
DOTDOT == << ".", "." >>

Paths == { << "/" >>, << "/", "b", "/" >>, << "/", "b", "/", "c" >> }

MemberNames == { << "/" >>, << "/", "b" >>, << "p" >> }

B_FIND_FOLLOW_SYMLINKS == 1

\* the FOLLOW_SYMLINKS bit and one bit that has no meaning, in every combination
FlagSet == { 0, B_FIND_FOLLOW_SYMLINKS, 2 * B_FIND_FOLLOW_SYMLINKS,
             3 * B_FIND_FOLLOW_SYMLINKS }

\* bKind: /b is a directory, a directory without any permission (mode 000),
\* or a symbolic link to a directory.  cKind: /b/c is a regular file or a
\* dangling symbolic link.
Worlds ==
    { [bKind |-> "dir", cKind |-> "file"],
      [bKind |-> "dir", cKind |-> "dangling"],
      [bKind |-> "noaccess", cKind |-> "file"],
      [bKind |-> "linkdir", cKind |-> "file"] }

(***************************************************************************)
(* Strings.                                                                *)
(***************************************************************************)
IsPrefix(p, s) == Len(p) <= Len(s) /\ SubSeq(s, 1, Len(p)) = p

\* current->str + n: the bytes of s after its first n bytes
StrFrom(s, n) == SubSeq(s, n + 1, Len(s))

\* the '/'-separated components of a path, empty ones dropped
RECURSIVE Comps(_, _)
Comps(s, cur) ==
    IF s = << >> THEN (IF cur = << >> THEN << >> ELSE << cur >>)
    ELSE IF Head(s) = "/"
         THEN (IF cur = << >> THEN << >> ELSE << cur >>) \o Comps(Tail(s), << >>)
         ELSE Comps(Tail(s), Append(cur, Head(s)))

RECURSIVE JoinComps(_)
JoinComps(cs) ==
    IF cs = << >> THEN << >>
    ELSE IF Len(cs) = 1 THEN Head(cs)
    ELSE Head(cs) \o SLASH \o JoinComps(Tail(cs))

\* b_path_clean: redundant separators and "." segments are dropped
b_path_clean(p) ==
    LET cs  == Comps(p, << >>)
        ks  == SelectSeq(cs, LAMBDA c : c # DOT)
        abs == p # << >> /\ Head(p) = "/"
    IN  IF abs THEN SLASH \o JoinComps(ks) ELSE JoinComps(ks)

(***************************************************************************)
(* The filesystem: / holds b and a; b (or the directory b points to)       *)
(* holds c and d.  Node "bt" is the directory reached through b.           *)
(***************************************************************************)
Entries(dnode) ==
    IF dnode = "root" THEN << DOT, DOTDOT, << "b" >>, << "a" >> >>
    ELSE << DOT, DOTDOT, << "c" >>, << "d" >> >>

\* the directory a node stands for when a path continues through it
AsDir(w, node) ==
    CASE node = "root" -> "root"
      [] node = "bt" -> IF w.bKind = "noaccess" THEN "none" ELSE "bt"
      [] node = "b" -> IF w.bKind = "noaccess" THEN "none" ELSE "bt"
      [] OTHER -> "none"

Lookup(dnode, c) ==
    CASE c = DOT -> dnode
      [] c = DOTDOT -> "root"
      [] dnode = "root" /\ c = << "b" >> -> "b"
      [] dnode = "root" /\ c = << "a" >> -> "a"
      [] dnode = "bt" /\ c = << "c" >> -> "c"
      [] dnode = "bt" /\ c = << "d" >> -> "d"
      [] OTHER -> "none"

RECURSIVE Walk(_, _, _)
Walk(w, node, cs) ==
    IF cs = << >> \/ node = "none" THEN node
    ELSE LET d == AsDir(w, node)
         IN  IF d = "none" THEN "none"
             ELSE Walk(w, Lookup(d, Head(cs)), Tail(cs))

Resolve(w, p) ==
    IF p = << >> \/ Head(p) # "/" THEN "none"
    ELSE Walk(w, "root", Comps(p, << >>))

\* file type seen by lstat (follow = FALSE) or stat (follow = TRUE); "fail"
\* when the call returns -1
NodeMode(w, node, follow) ==
    CASE node = "none" -> "fail"
      [] node \in { "root", "bt" } -> "dir"
      [] node = "b" -> IF w.bKind = "linkdir" /\ ~follow THEN "link" ELSE "dir"
      [] node = "c" -> IF w.cKind = "file" THEN "file"
                       ELSE IF follow THEN "fail" ELSE "link"
      [] OTHER -> "file"

\* stat as soon as any flag bit is set
b_stat_AnyBit(w, p, fl) == NodeMode(w, Resolve(w, p), fl # 0)

\* b_stat: stat when the FOLLOW_SYMLINKS bit is set, lstat otherwise
b_stat(w, p, fl) ==
    NodeMode(w, Resolve(w, p), (fl \div B_FIND_FOLLOW_SYMLINKS) % 2 = 1)

\* opendir: the stream's directory, or the errno of the failure
opendir(w, p) ==
    LET node == Resolve(w, p) IN
    CASE node = "none" -> [ok |-> FALSE, dnode |-> "none", errno |-> "ENOENT"]
      [] node \in { "root", "bt" } -> [ok |-> TRUE, dnode |-> node, errno |-> "0"]
      [] node = "b" ->
            IF w.bKind = "noaccess"
            THEN [ok |-> FALSE, dnode |-> "none", errno |-> "EACCES"]
            ELSE [ok |-> TRUE, dnode |-> "bt", errno |-> "0"]
      [] node = "c" /\ w.cKind = "dangling" ->
            [ok |-> FALSE, dnode |-> "none", errno |-> "ENOENT"]
      [] OTHER -> [ok |-> FALSE, dnode |-> "none", errno |-> "ENOTDIR"]
(***************************************************************************)
(* Collaborators: error accumulator and frame stack.                       *)
(***************************************************************************)
\* b_error_fatal
b_error_fatal(t) == t = "FATAL"

\* b_error_set(err, B_ERROR_WARN, errno, "Unable to open directory", path)
b_error_set(es, e, p) == Append(es, [sev |-> "WARN", errno |-> e, path |-> p])

b_stack_top(s) == IF s = << >> THEN 0 ELSE s[Len(s)]

b_stack_pop(s) == SubSeq(s, 1, Len(s) - 1)

b_stack_push(s, f) == Append(s, f)

\* b_dir_destroy(item): closes the stream, frees the path and the frame
b_dir_destroy(fr, f) ==
    IF f = 0 THEN fr
    ELSE [fr EXCEPT ![f].destroyed = fr[f].destroyed + 1]

\* b_stack_destroy(dirs): the destructor runs on every frame still stacked
RECURSIVE b_stack_destroy(_, _)
b_stack_destroy(fr, s) ==
    IF s = << >> THEN fr
    ELSE b_stack_destroy(b_dir_destroy(fr, s[Len(s)]), b_stack_pop(s))

DoubleDestroy(fr) == \E f \in 1..Len(fr) : fr[f].destroyed > 1

(***************************************************************************)
(* b_dir_open, b_dir_read, subst_member_name.                              *)
(***************************************************************************)
\* b_dir_open without allocation failure: the new frame, or NULL and errno
b_dir_open(w, p) ==
    LET o == opendir(w, p) IN
    IF o.ok
    THEN [ok |-> TRUE, errno |-> "0",
          frame |-> [path |-> p, dnode |-> o.dnode, pos |-> 0, destroyed |-> 0]]
    ELSE [ok |-> FALSE, errno |-> o.errno,
          frame |-> [path |-> p, dnode |-> "none", pos |-> 0, destroyed |-> 0]]

\* the separator is added after every frame path
ItemPath_AlwaysSlash(dpath, name) == dpath \o SLASH \o name

\* item->path: the frame's path, a separator unless that path is "/", the name
ItemPath(dpath, name) ==
    IF dpath # SLASH THEN dpath \o SLASH \o name ELSE dpath \o name

\* the result of the stat is not checked: the entry is handed on
b_dir_read_StatUnchecked(w, f, fl) ==
    LET es == Entries(f.dnode) IN
    IF f.pos >= Len(es)
    THEN [kind |-> "eof", item |-> NoItem]
    ELSE LET name == es[f.pos + 1]
             ip   == ItemPath(f.path, name)
             mode == b_stat(w, ip, fl)
         IN  [kind |-> "item",
              item |-> [name |-> name, path |-> ip,
                        mode |-> IF mode = "fail" THEN "file" ELSE mode]]

\* b_dir_read without allocation failure: kind "eof" (readdir gave NULL),
\* "fail" (the stat failed) or "item"
b_dir_read(w, f, fl) ==
    LET es == Entries(f.dnode) IN
    IF f.pos >= Len(es)
    THEN [kind |-> "eof", item |-> NoItem]
    ELSE LET name == es[f.pos + 1]
             ip   == ItemPath(f.path, name)
             mode == b_stat(w, ip, fl)
         IN  IF mode = "fail"
             THEN [kind |-> "fail", item |-> NoItem]
             ELSE [kind |-> "item",
                   item |-> [name |-> name, path |-> ip, mode |-> mode]]

\* only "." is filtered
IsDotOrDotDot_OnlyDot(name) == name = DOT

\* lines 263-265
IsDotOrDotDot(name) == name = DOT \/ name = DOTDOT

\* the suffix is taken after len(member_name) bytes
subst_member_name_MemberLen(p, m, current) ==
    IF p # m THEN m \o StrFrom(current, Len(m)) ELSE NULL

\* subst_member_name without allocation failure: NULL when the cleaned
\* path and member name are equal
subst_member_name(p, m, current) ==
    IF p # m THEN m \o StrFrom(current, Len(p)) ELSE NULL

\* second argument of the callback at line 273
LogicalPath(nmn, ipath) == IF nmn # NULL THEN nmn ELSE ipath

(***************************************************************************)
(* The visitor.                                                            *)
(***************************************************************************)
VisitorResults == { 1, 0, -1 }

\* the accumulator after the visitor returned r
AfterVisitor(r) == IF r < 0 /\ hasErr THEN severity ELSE errType

\* the root is reported under its disk path
RootVisit_DiskName ==
    [disk |-> clean_path, logical |-> clean_path, mode |-> st, fallback |-> FALSE]

\* arguments of the callback at line 220
RootVisit ==
    [disk |-> clean_path, logical |-> clean_member_name, mode |-> st, fallback |-> FALSE]

\* arguments of the callback at line 273
ItemVisit(it, nmn, fb) ==
    [disk |-> it.path, logical |-> LogicalPath(nmn, it.path), mode |-> it.mode,
     fallback |-> fb]

Visit(v, r) ==
    [disk |-> v.disk, logical |-> v.logical, mode |-> v.mode,
     fallback |-> v.fallback, res |-> r]

\* lines 279-285: the visitor error is downgraded to a skip
VisitorErrorTolerated(t) == hasErr /\ ~b_error_fatal(t)

\* no open failure is tolerated
OpenFailureTolerated_Never(e) == FALSE

\* lines 295-299: the open failure is tolerated
OpenFailureTolerated(e) == e = "EACCES"

\* every file type is taken for a directory
IsDir_Always(mode) == TRUE

\* lines 228 and 287: (st_mode & S_IFMT) == S_IFDIR
IsDir(mode) == mode = "dir"

\* a result of 0 is not taken as a skip
SkipEntry_NoPrune(r, t, mode) ==
    \/ r < 0 /\ VisitorErrorTolerated(t)
    \/ r > 0 /\ ~IsDir(mode)

\* lines 277-287: the entry goes to cleanup_item without an open
SkipEntry(r, t, mode) ==
    \/ r = 0
    \/ r < 0 /\ VisitorErrorTolerated(t)
    \/ r > 0 /\ ~IsDir(mode)

\* line 247
Cwd == b_stack_top(dirs)

(***************************************************************************)
(* Init.                                                                   *)
(***************************************************************************)
Init ==
    /\ pc = "entry"
    /\ path \in Paths
    /\ member_name \in MemberNames
    /\ flags \in FlagSet
    /\ hasErr \in BOOLEAN
    /\ severity \in { "WARN", "FATAL" }
    /\ (~hasErr => severity = "WARN")
    /\ fs \in Worlds
    /\ clean_path = NULL
    /\ clean_member_name = NULL
    /\ live = { }
    /\ frames = << >>
    /\ dirs = << >>
    /\ dir = 0
    /\ item = NoItem
    /\ itemsLive = 0
    /\ st = "none"
    /\ errno = "0"
    /\ errType = "NONE"
    /\ errs = << >>
    /\ log = << >>
    /\ opens = << >>
    /\ readFails = 0
    /\ failedAt = "none"
    /\ faults = 0
    /\ ub = FALSE
    /\ ret = NoRet

Inputs == << path, member_name, flags, hasErr, severity, fs >>

History == << opens, readFails, failedAt >>

CanFault == faults < MaxFaults

(***************************************************************************)
(* b_find, lines 197-213: setup.                                           *)
(***************************************************************************)
CleanPath ==
    /\ pc = "entry"
    /\ \/ /\ clean_path' = b_path_clean(path)
          /\ live' = live \cup { "clean_path" }
          /\ pc' = "clean_member_name"
          /\ UNCHANGED << faults, failedAt >>
       \/ /\ CanFault
          /\ faults' = faults + 1
          /\ failedAt' = "path_clean"
          /\ pc' = "error_path_clean"
          /\ UNCHANGED << clean_path, live >>
    /\ UNCHANGED << Inputs, clean_member_name, frames, dirs, dir, item, itemsLive,
                    st, errno, errType, errs, log, opens, readFails, ub, ret >>

CleanMemberName ==
    /\ pc = "clean_member_name"
    /\ \/ /\ clean_member_name' = b_path_clean(member_name)
          /\ live' = live \cup { "clean_member_name" }
          /\ pc' = "stack_new"
          /\ UNCHANGED << faults, failedAt >>
       \/ /\ CanFault
          /\ faults' = faults + 1
          /\ failedAt' = "member_clean"
          /\ pc' = "error_path_clean_member_name"
          /\ UNCHANGED << clean_member_name, live >>
    /\ UNCHANGED << Inputs, clean_path, frames, dirs, dir, item, itemsLive,
                    st, errno, errType, errs, log, opens, readFails, ub, ret >>

StackNew ==
    /\ pc = "stack_new"
    /\ \/ /\ live' = live \cup { "dirs" }
          /\ pc' = "stat"
          /\ UNCHANGED << faults, failedAt >>
       \/ /\ CanFault
          /\ faults' = faults + 1
          /\ failedAt' = "stack_new"
          /\ pc' = "error_stack_new"
          /\ UNCHANGED live
    /\ UNCHANGED << Inputs, clean_path, clean_member_name, frames, dirs, dir, item,
                    itemsLive, st, errno, errType, errs, log, opens, readFails, ub,
                    ret >>

\* the result of the root stat is not checked
StatRoot_Unchecked ==
    /\ pc = "stat"
    /\ LET mode == b_stat(fs, clean_path, flags) IN
       /\ pc' = "root_callback"
       /\ st' = IF mode = "fail" THEN "file" ELSE mode
       /\ failedAt' = IF mode = "fail" THEN "stat" ELSE failedAt
    /\ UNCHANGED << Inputs, clean_path, clean_member_name, live, frames, dirs, dir,
                    item, itemsLive, errno, errType, errs, log, opens, readFails,
                    faults, ub, ret >>

\* lines 211-213
StatRoot ==
    /\ pc = "stat"
    /\ LET mode == b_stat(fs, clean_path, flags) IN
       IF mode = "fail"
       THEN /\ pc' = "error_stat"
            /\ failedAt' = "stat"
            /\ UNCHANGED st
       ELSE /\ pc' = "root_callback"
            /\ st' = mode
            /\ UNCHANGED failedAt
    /\ UNCHANGED << Inputs, clean_path, clean_member_name, live, frames, dirs, dir,
                    item, itemsLive, errno, errType, errs, log, opens, readFails,
                    faults, ub, ret >>

(***************************************************************************)
(* b_find, lines 220-242: the root.                                        *)
(***************************************************************************)
RootCallback ==
    /\ pc = "root_callback"
    /\ \E r \in VisitorResults :
          /\ log' = Append(log, Visit(RootVisit, r))
          /\ errType' = AfterVisitor(r)
          /\ IF r = 0 THEN pc' = "cleanup" /\ UNCHANGED << ret, failedAt >>
             ELSE IF r < 0
             THEN pc' = "error_stat" /\ failedAt' = "root_callback" /\ UNCHANGED ret
             ELSE IF ~IsDir(st)
             THEN pc' = "returned" /\ ret' = << 0 >> /\ UNCHANGED failedAt
             ELSE pc' = "root_open" /\ UNCHANGED << ret, failedAt >>
    /\ UNCHANGED << Inputs, clean_path, clean_member_name, live, frames, dirs, dir,
                    item, itemsLive, st, errno, errs, opens, readFails, faults, ub >>

\* the outcomes of b_dir_open(p): what the filesystem answers, or an
\* allocation failure
DirOpenOutcomes(p) ==
    { [o |-> b_dir_open(fs, p), fault |-> 0] } \cup
    ( IF CanFault
      THEN { [o |-> [b_dir_open(fs, p) EXCEPT !.ok = FALSE, !.errno = "ENOMEM"],
              fault |-> 1] }
      ELSE { } )

RootOpen ==
    /\ pc = "root_open"
    /\ \E x \in DirOpenOutcomes(clean_path) :
          /\ faults' = faults + x.fault
          /\ opens' = Append(opens, [path |-> clean_path, errno |-> x.o.errno])
          /\ IF x.o.ok
             THEN /\ frames' = Append(frames, x.o.frame)
                  /\ dir' = Len(frames) + 1
                  /\ pc' = "root_push"
                  /\ UNCHANGED << errno, errs, errType, failedAt >>
             ELSE /\ errno' = x.o.errno
                  /\ errs' = IF hasErr THEN b_error_set(errs, x.o.errno, clean_path)
                             ELSE errs
                  /\ errType' = IF hasErr THEN "WARN" ELSE errType
                  /\ failedAt' = "root_open"
                  /\ pc' = "error_stat"
                  /\ UNCHANGED << frames, dir >>
    /\ UNCHANGED << Inputs, clean_path, clean_member_name, live, dirs, item,
                    itemsLive, st, log, readFails, ub, ret >>

RootPush ==
    /\ pc = "root_push"
    /\ \/ /\ dirs' = b_stack_push(dirs, dir)
          /\ pc' = "loop"
          /\ UNCHANGED << faults, failedAt >>
       \/ /\ CanFault
          /\ faults' = faults + 1
          /\ failedAt' = "root_push"
          /\ pc' = "error_cleanup"
          /\ UNCHANGED dirs
    /\ UNCHANGED << Inputs, clean_path, clean_member_name, live, frames, dir, item,
                    itemsLive, st, errno, errType, errs, log, opens, readFails, ub,
                    ret >>

(***************************************************************************)
(* b_find, lines 244-318: the main loop.                                   *)
(***************************************************************************)
LoopExit ==
    /\ pc = "loop"
    /\ Cwd = 0
    /\ pc' = "cleanup"
    /\ UNCHANGED << Inputs, clean_path, clean_member_name, live, frames, dirs, dir,
                    item, itemsLive, st, errno, errType, errs, log, History, faults,
                    ub, ret >>

\* the outcomes of b_dir_read(cwd, flags): what the stream and the stat
\* give, or an allocation failure after readdir produced an entry
DirReadOutcomes(f) ==
    LET r == b_dir_read(fs, f, flags) IN
    { [r |-> r, fault |-> 0] } \cup
    ( IF CanFault /\ r.kind # "eof"
      THEN { [r |-> [kind |-> "fail", item |-> NoItem], fault |-> 1] }
      ELSE { } )

\* readdir consumes two entries of the stream
Advance_Skip(f) ==
    [f EXCEPT !.pos = IF f.pos + 1 < Len(Entries(f.dnode)) THEN f.pos + 2
                      ELSE Len(Entries(f.dnode))]

\* line 84: the cursor of the frame after one readdir
Advance(f) ==
    [f EXCEPT !.pos = IF f.pos < Len(Entries(f.dnode)) THEN f.pos + 1 ELSE f.pos]

ReadEntry ==
    /\ pc = "loop"
    /\ Cwd # 0
    /\ \E x \in DirReadOutcomes(frames[Cwd]) :
          /\ faults' = faults + x.fault
          /\ readFails' = IF x.r.kind = "fail" THEN readFails + 1 ELSE readFails
          /\ IF x.r.kind # "item"
             THEN \* lines 253-261: pop the top frame and destroy it
                  LET oldcwd == b_stack_top(dirs) IN
                  /\ dirs' = b_stack_pop(dirs)
                  /\ frames' = b_dir_destroy([frames EXCEPT ![Cwd] = Advance(@)],
                                             oldcwd)
                  /\ pc' = "loop"
                  /\ UNCHANGED << item, itemsLive >>
             ELSE /\ frames' = [frames EXCEPT ![Cwd] = Advance(@)]
                  /\ UNCHANGED dirs
                  /\ IF IsDotOrDotDot(x.r.item.name)
                     THEN \* lines 263-265 and 309-312
                          /\ pc' = "loop"
                          /\ UNCHANGED << item, itemsLive >>
                     ELSE /\ item' = x.r.item
                          /\ itemsLive' = itemsLive + 1
                          /\ pc' = "callback"
    /\ UNCHANGED << Inputs, clean_path, clean_member_name, live, dir, st, errno,
                    errType, errs, log, opens, failedAt, ub, ret >>

\* the outcomes of subst_member_name: the substituted name, or NULL when an
\* allocation in it fails
SubstOutcomes(current) ==
    LET n == subst_member_name(clean_path, clean_member_name, current) IN
    { [nmn |-> n, fault |-> 0] } \cup
    ( IF CanFault /\ n # NULL THEN { [nmn |-> NULL, fault |-> 1] } ELSE { } )

Callback ==
    /\ pc = "callback"
    /\ \E x \in SubstOutcomes(item.path) : \E r \in VisitorResults :
          /\ faults' = faults + x.fault
          /\ log' = Append(log, Visit(ItemVisit(item, x.nmn, x.fault = 1), r))
          /\ errType' = AfterVisitor(r)
          /\ IF SkipEntry(r, errType', item.mode)
             THEN \* cleanup_item
                  /\ item' = NoItem
                  /\ itemsLive' = itemsLive - 1
                  /\ pc' = "loop"
                  /\ UNCHANGED failedAt
             ELSE IF r < 0
             THEN \* error_item
                  /\ item' = NoItem
                  /\ itemsLive' = itemsLive - 1
                  /\ failedAt' = "callback"
                  /\ pc' = "error_cleanup"
             ELSE /\ pc' = "open"
                  /\ UNCHANGED << item, itemsLive, failedAt >>
    /\ UNCHANGED << Inputs, clean_path, clean_member_name, live, frames, dirs, dir,
                    st, errno, errs, opens, readFails, ub, ret >>

OpenDir ==
    /\ pc = "open"
    /\ \E x \in DirOpenOutcomes(item.path) :
          /\ faults' = faults + x.fault
          /\ opens' = Append(opens, [path |-> item.path, errno |-> x.o.errno])
          /\ IF x.o.ok
             THEN /\ frames' = Append(frames, x.o.frame)
                  /\ pc' = "push"
                  /\ UNCHANGED << errno, errs, errType, item, itemsLive, failedAt >>
             ELSE /\ errno' = x.o.errno
                  /\ errs' = IF hasErr THEN b_error_set(errs, x.o.errno, item.path)
                             ELSE errs
                  /\ errType' = IF hasErr THEN "WARN" ELSE errType
                  /\ item' = NoItem
                  /\ itemsLive' = itemsLive - 1
                  /\ IF OpenFailureTolerated(x.o.errno)
                     THEN pc' = "loop" /\ UNCHANGED failedAt
                     ELSE pc' = "error_cleanup" /\ failedAt' = "open"
                  /\ UNCHANGED frames
    /\ UNCHANGED << Inputs, clean_path, clean_member_name, live, dirs, dir, st,
                    log, readFails, ub, ret >>

\* the new frame is queued under the frames already stacked
StackAfterPush_Queue(s, f) == << f >> \o s

\* line 302: the new frame goes on top of the stack
StackAfterPush(s, f) == b_stack_push(s, f)

\* the entry record is kept when the push succeeds
Push_KeepItem ==
    /\ pc = "push"
    /\ dirs' = StackAfterPush(dirs, Len(frames))
    /\ pc' = "loop"
    /\ UNCHANGED << Inputs, clean_path, clean_member_name, live, frames, dir, item,
                    itemsLive, st, errno, errType, errs, log, History, faults, ub,
                    ret >>

\* lines 302-307: newdir is the frame opened last
Push ==
    /\ pc = "push"
    /\ LET newdir == Len(frames) IN
       \/ /\ dirs' = StackAfterPush(dirs, newdir)
          /\ item' = NoItem
          /\ itemsLive' = itemsLive - 1
          /\ pc' = "loop"
          /\ UNCHANGED << frames, faults, failedAt >>
       \/ /\ CanFault
          /\ faults' = faults + 1
          /\ frames' = b_dir_destroy(frames, newdir)
          /\ failedAt' = "push"
          /\ pc' = "error_cleanup"
          /\ UNCHANGED << dirs, item, itemsLive >>
    /\ UNCHANGED << Inputs, clean_path, clean_member_name, live, dir, st, errno,
                    errType, errs, log, opens, readFails, ub, ret >>

(***************************************************************************)
(* b_find, lines 320-343: the exits.                                       *)
(***************************************************************************)
\* lines 320-325
Cleanup ==
    /\ pc = "cleanup"
    /\ frames' = b_stack_destroy(frames, dirs)
    /\ dirs' = << >>
    /\ live' = live \ { "dirs", "clean_path", "clean_member_name" }
    /\ ub' = (ub \/ DoubleDestroy(frames'))
    /\ ret' = << 0 >>
    /\ pc' = "returned"
    /\ UNCHANGED << Inputs, clean_path, clean_member_name, dir, item, itemsLive, st,
                    errno, errType, errs, log, History, faults >>

\* lines 327-329: b_dir_destroy(dir)
ErrorCleanup ==
    /\ pc = "error_cleanup"
    /\ frames' = b_dir_destroy(frames, dir)
    /\ ub' = (ub \/ DoubleDestroy(frames'))
    /\ pc' = "error_stat"
    /\ UNCHANGED << Inputs, clean_path, clean_member_name, live, dirs, dir, item,
                    itemsLive, st, errno, errType, errs, log, History, faults, ret >>

\* lines 331-334: b_stack_destroy(dirs)
ErrorStat ==
    /\ pc = "error_stat"
    /\ frames' = b_stack_destroy(frames, dirs)
    /\ dirs' = << >>
    /\ live' = live \ { "dirs" }
    /\ ub' = (ub \/ DoubleDestroy(frames'))
    /\ pc' = "error_stack_new"
    /\ UNCHANGED << Inputs, clean_path, clean_member_name, dir, item, itemsLive, st,
                    errno, errType, errs, log, History, faults, ret >>

\* lines 336-337
ErrorStackNew ==
    /\ pc = "error_stack_new"
    /\ live' = live \ { "clean_member_name" }
    /\ pc' = "error_path_clean_member_name"
    /\ UNCHANGED << Inputs, clean_path, clean_member_name, frames, dirs, dir, item,
                    itemsLive, st, errno, errType, errs, log, History, faults, ub,
                    ret >>

\* lines 339-340
ErrorPathCleanMemberName ==
    /\ pc = "error_path_clean_member_name"
    /\ live' = live \ { "clean_path" }
    /\ pc' = "error_path_clean"
    /\ UNCHANGED << Inputs, clean_path, clean_member_name, frames, dirs, dir, item,
                    itemsLive, st, errno, errType, errs, log, History, faults, ub,
                    ret >>

\* lines 342-343
ErrorPathClean ==
    /\ pc = "error_path_clean"
    /\ ret' = << -1 >>
    /\ pc' = "returned"
    /\ UNCHANGED << Inputs, clean_path, clean_member_name, live, frames, dirs, dir,
                    item, itemsLive, st, errno, errType, errs, log, History, faults,
                    ub >>

\* a frame destroyed twice is a use after free and a double free: the
\* process may be aborted there instead of going on
Crash ==
    /\ ub
    /\ pc \notin { "returned", "crashed" }
    /\ pc' = "crashed"
    /\ UNCHANGED << Inputs, clean_path, clean_member_name, live, frames, dirs, dir,
                    item, itemsLive, st, errno, errType, errs, log, History, faults,
                    ub, ret >>

Next ==
    \/ CleanPath
    \/ CleanMemberName
    \/ StackNew
    \/ StatRoot
    \/ RootCallback
    \/ RootOpen
    \/ RootPush
    \/ LoopExit
    \/ ReadEntry
    \/ Callback
    \/ OpenDir
    \/ Push
    \/ Cleanup
    \/ ErrorCleanup
    \/ ErrorStat
    \/ ErrorStackNew
    \/ ErrorPathCleanMemberName
    \/ ErrorPathClean
    \/ Crash

Spec == Init /\ [][Next]_vars

(***************************************************************************)
(* Vocabulary of the properties.                                           *)
(***************************************************************************)
Last(q) == q[Len(q)]

Follow == (flags \div B_FIND_FOLLOW_SYMLINKS) % 2 = 1

Returned(v) == pc = "returned" /\ ret = << v >>

Count(p) == Cardinality({ i \in 1..Len(log) : log[i].disk = p })

AllAccepted == \A i \in 1..Len(log) : log[i].res > 0

RECURSIVE LastSlash(_)
LastSlash(p) ==
    IF p = << >> THEN 0
    ELSE IF p[Len(p)] = "/" THEN Len(p)
    ELSE LastSlash(SubSeq(p, 1, Len(p) - 1))

\* the directory part of a path
Parent(p) ==
    LET k == LastSlash(p) IN IF k <= 1 THEN SLASH ELSE SubSeq(p, 1, k - 1)

ChildPath(d, n) == IF d = SLASH THEN d \o n ELSE d \o SLASH \o n

\* the leaf name of a path: what follows its last separator
Leaf(p) == SubSeq(p, LastSlash(p) + 1, Len(p))

\* p lies strictly below directory d
InSubtree(p, d) == p # d /\ IsPrefix(ChildPath(d, << >>), p)

\* the directory a path names, permissions left aside
DirOf(w, p) ==
    LET n == Resolve(w, p) IN
    IF n \in { "root", "bt" } THEN n ELSE IF n = "b" THEN "bt" ELSE "none"

NamesIn(dnode) ==
    { Entries(dnode)[i] : i \in 1..Len(Entries(dnode)) } \ { DOT, DOTDOT }

\* the root and every entry, other than "." and "..", of every directory of
\* the tree under p
RECURSIVE TreeUnder(_, _, _)
TreeUnder(w, p, follow) ==
    { p } \cup
    ( IF NodeMode(w, Resolve(w, p), follow) = "dir"
      THEN UNION { TreeUnder(w, ChildPath(p, n), follow) : n \in NamesIn(DirOf(w, p)) }
      ELSE { } )

OpensAllOk == \A k \in 1..Len(opens) : opens[k].errno = "0"

ErrorPcs ==
    { "error_cleanup", "error_stat", "error_stack_new",
      "error_path_clean_member_name", "error_path_clean" }

Sibling(i, k) == i > 1 /\ k > 1 /\ Parent(log[i].disk) = Parent(log[k].disk)

C2_PreOrder ==
    /\ \A k \in 2..Len(log) :
          \E i \in 1..(k - 1) : log[i].disk = Parent(log[k].disk) /\ log[i].res > 0
    /\ \A i \in 2..Len(log) : \A k \in (i + 1)..Len(log) :
          ( /\ log[i].res > 0
            /\ Sibling(i, k)
            /\ \A m \in (i + 1)..(k - 1) : ~Sibling(i, m) )
          => \A j \in (i + 1)..(k - 1) : InSubtree(log[j].disk, log[i].disk)
    /\ \A i \in 1..Len(log) : \A k \in (i + 1)..Len(log) :
          InSubtree(log[k].disk, log[i].disk)
          => \A j \in (i + 1)..(k - 1) : InSubtree(log[j].disk, log[i].disk)

C2_Witness ==
    /\ Len(log) = 5
    /\ log[2].mode = "dir" /\ log[2].res > 0
    /\ InSubtree(log[3].disk, log[2].disk)
    /\ InSubtree(log[4].disk, log[2].disk)
    /\ Sibling(2, 5)

(***************************************************************************)
(* C3.  A directory on which the visitor returned 0 is never opened and   *)
(* nothing below it is surfaced; when it is not the root, the step that    *)
(* took the result goes back to the loop with the parent frame on top of   *)
(* an unchanged stack.                                                     *)
(***************************************************************************)
C3_NoDescent ==
    \A i \in 1..Len(log) :
        (log[i].res = 0 /\ log[i].mode = "dir") =>
            /\ \A f \in 1..Len(frames) : frames[f].path # log[i].disk
            /\ \A k \in 1..Len(opens) : opens[k].path # log[i].disk
            /\ \A j \in 1..Len(log) : ~InSubtree(log[j].disk, log[i].disk)

C3_Continues ==
    ( /\ pc = "callback"
      /\ log' # log
      /\ Last(log').res = 0
      /\ Last(log').mode = "dir" )
    => /\ pc' = "loop"
       /\ dirs' = dirs
       /\ frames' = frames
       /\ dirs # << >>
       /\ frames[Last(dirs)].path = Parent(Last(log').disk)
       /\ failedAt' = "none"

\* C3: both parts, in every state and at every step
C3_Pruned == [] C3_NoDescent /\ [][C3_Continues]_vars

C3_Witness ==
    \E i \in 2..Len(log) :
        /\ log[i].res = 0 /\ log[i].mode = "dir"
        /\ i < Len(log)
        /\ Sibling(i, Len(log))

(***************************************************************************)
(* C4.  As stated: a visitor result < 0, on the root as on any entry, with *)
(* an accumulator that reports it as non-fatal, does not make b_find       *)
(* abort.                                                                  *)
(***************************************************************************)
C4_AsClaimed ==
    ( /\ log # << >>
      /\ Last(log).res < 0
      /\ hasErr /\ ~b_error_fatal(severity) )
    => /\ failedAt \notin { "root_callback", "callback" }
       /\ pc \notin ErrorPcs
       /\ ~Returned(-1)

(***************************************************************************)
(* C5.  As stated: after a visitor result < 0 with no accumulator or a     *)
(* fatal one, the visitor is not invoked again and b_find returns -1.      *)
(***************************************************************************)
C5_AsClaimed ==
    \A i \in 1..Len(log) :
        (log[i].res < 0 /\ (~hasErr \/ b_error_fatal(severity))) =>
            /\ i = Len(log)
            /\ pc # "crashed"
            /\ pc = "returned" => ret = << -1 >>

(***************************************************************************)
(* C6.  A non-root b_dir_open failing with EACCES records one WARN (when   *)
(* an accumulator is present), pushes and destroys nothing, and goes back  *)
(* to the loop with the parent frame on top; if nothing else fails the     *)
(* call returns 0 having surfaced every entry of that parent.              *)
(***************************************************************************)
C6_Step ==
    ( /\ pc = "open"
      /\ opens' # opens
      /\ Last(opens').errno = "EACCES" )
    => /\ errs' = IF hasErr
                  THEN Append(errs, [sev |-> "WARN", errno |-> "EACCES",
                                     path |-> item.path])
                  ELSE errs
       /\ frames' = frames
       /\ dirs' = dirs
       /\ dirs # << >>
       /\ frames[Last(dirs)].path = Parent(item.path)
       /\ frames[Last(dirs)].destroyed = 0
       /\ pc' = "loop"
       /\ failedAt' = "none"

C6_Final ==
    \A k \in 2..Len(opens) :
        ( /\ opens[k].errno = "EACCES"
          /\ pc = "returned"
          /\ faults = 0 /\ readFails = 0
          /\ \A i \in 1..Len(log) : log[i].res >= 0 )
        => /\ ret = << 0 >>
           /\ \A n \in NamesIn(DirOf(fs, Parent(opens[k].path))) :
                 Count(ChildPath(Parent(opens[k].path), n)) = 1

\* C6: the EACCES step and the outcome of the call
C6_Tolerated == [] C6_Final /\ [][C6_Step]_vars

C6_Witness ==
    /\ Returned(0)
    /\ Len(opens) = 2 /\ opens[2].errno = "EACCES"
    /\ hasErr /\ Len(errs) = 1
    /\ Len(log) = 3 /\ Sibling(2, 3)

(***************************************************************************)
(* C7.  As stated: after a failed b_dir_open of the root (any errno) or of *)
(* a descendant (errno other than EACCES), a WARN is on the accumulator    *)
(* when there is one, the last visitor invocation stays the one for that   *)
(* directory, and b_find returns -1.                                       *)
(***************************************************************************)
C7_AsClaimed ==
    ( /\ opens # << >>
      /\ Last(opens).errno # "0"
      /\ (Len(opens) = 1 \/ Last(opens).errno # "EACCES") )
    => /\ hasErr => ( /\ errs # << >>
                      /\ Last(errs) = [sev |-> "WARN", errno |-> Last(opens).errno,
                                       path |-> Last(opens).path] )
       /\ Last(log).disk = Last(opens).path
       /\ pc # "crashed"
       /\ pc = "returned" => ret = << -1 >>

(***************************************************************************)
(* C8.  When b_path_clean of path or of member_name, b_stack_new or the    *)
(* stat of the root fails, b_find goes down the error labels and returns   *)
(* -1; the visitor was never invoked, nothing was opened and the           *)
(* accumulator was not touched.                                            *)
(***************************************************************************)
SetupFailed == failedAt \in { "path_clean", "member_clean", "stack_new", "stat" }

C8_SetupFailure ==
    SetupFailed =>
        /\ log = << >>
        /\ opens = << >>
        /\ errs = << >> /\ errType = "NONE"
        /\ pc \in ErrorPcs \cup { "returned" }
        /\ pc = "returned" => ret = << -1 >>

C8_Witness == Returned(-1) /\ failedAt = "stat" /\ hasErr

(***************************************************************************)
(* C9.  In every visitor invocation the disk path starts with the cleaned  *)
(* path P; the logical path is the disk path when P = M, and otherwise M   *)
(* followed by the disk path after its first len(P) bytes (M itself for    *)
(* the root), or the disk path when the allocation of the rewritten name   *)
(* failed.                                                                 *)
(***************************************************************************)
C9_LogicalPath ==
    \A i \in 1..Len(log) :
        LET e == log[i]
            P == b_path_clean(path)
            M == b_path_clean(member_name)
        IN  /\ IsPrefix(P, e.disk)
            /\ P = M => e.logical = e.disk
            /\ P # M =>
                  IF e.fallback THEN e.logical = e.disk
                  ELSE e.logical = M \o SubSeq(e.disk, Len(P) + 1, Len(e.disk))
            /\ i = 1 => (e.logical = M /\ ~e.fallback)
            /\ e.fallback => (i > 1 /\ P # M /\ faults > 0)

C9_Witness ==
    /\ Len(log) >= 3
    /\ clean_path # clean_member_name
    /\ ~log[3].fallback
    /\ log[3].logical # log[3].disk
    /\ Len(log[3].logical) > Len(clean_member_name) + 1

(***************************************************************************)
(* C10.  The first visitor invocation is the root's, with the cleaned      *)
(* path as disk path and the cleaned member name as logical path; before   *)
(* it no frame is opened or pushed.                                        *)
(***************************************************************************)
C10_RootFirst ==
    /\ log = << >> => (frames = << >> /\ opens = << >> /\ dirs = << >> /\ dir = 0)
    /\ log # << >> =>
          /\ log[1].disk = b_path_clean(path)
          /\ log[1].logical = b_path_clean(member_name)
          /\ log[1].disk = clean_path
          /\ log[1].mode = b_stat(fs, clean_path, flags)

C10_Witness ==
    /\ log # << >>
    /\ frames # << >>
    /\ path # clean_path
    /\ clean_path # clean_member_name
(***************************************************************************)
(* C11.  No visitor invocation is for an entry whose leaf name is "." or   *)
(* "..", no b_dir_open call and no frame is for such an entry, and the     *)
(* entry record handed on by a read never carries such a name.             *)
(***************************************************************************)
C11_NoDotEntries ==
    /\ \A i \in 2..Len(log) : Leaf(log[i].disk) \notin { DOT, DOTDOT }
    /\ \A k \in 2..Len(opens) : Leaf(opens[k].path) \notin { DOT, DOTDOT }
    /\ \A f \in 2..Len(frames) : Leaf(frames[f].path) \notin { DOT, DOTDOT }
    /\ \A k \in 2..Len(dirs) : Leaf(frames[dirs[k]].path) \notin { DOT, DOTDOT }
    /\ item # NoItem => item.name \notin { DOT, DOTDOT }

\* both dot entries of / and of /b were read, and entries after them surfaced
C11_Witness ==
    /\ Len(dirs) = 2
    /\ frames[dirs[1]].pos >= 3
    /\ frames[dirs[2]].pos >= 3
    /\ pc = "callback"
    /\ Len(log) >= 2

(***************************************************************************)
(* C12.  As stated: no frame is ever destroyed twice, and when b_find has  *)
(* returned every frame that was pushed on the stack has been destroyed    *)
(* exactly once.                                                           *)
(***************************************************************************)
\* frame f was pushed: every frame opened, but the one whose push failed
Pushed(f) ==
    /\ f \in 1..Len(frames)
    /\ ~(f = Len(frames) /\ failedAt \in { "root_push", "push" })
    /\ ~(f = Len(frames) /\ pc \in { "root_push", "push" })

C12_AsClaimed ==
    /\ \A f \in 1..Len(frames) : frames[f].destroyed <= 1
    /\ pc = "returned" => \A f \in 1..Len(frames) :
                              Pushed(f) => frames[f].destroyed = 1

(***************************************************************************)
(* C13.  As stated: whenever b_find has returned 0, the frame stack has    *)
(* been destroyed and both cleaned strings have been released.             *)
(***************************************************************************)
C13_AsClaimed ==
    Returned(0) =>
        /\ "dirs" \notin live
        /\ "clean_path" \notin live
        /\ "clean_member_name" \notin live

(***************************************************************************)
(* C14.  As stated: whenever b_find has returned -1 nothing acquired since *)
(* entry is still allocated: no entry record, no frame, neither cleaned    *)
(* string and not the stack.                                               *)
(***************************************************************************)
C14_AsClaimed ==
    Returned(-1) =>
        /\ itemsLive = 0
        /\ \A f \in 1..Len(frames) : frames[f].destroyed >= 1
        /\ live = { }

(***************************************************************************)
(* C15.  When the root is not a directory and the visitor returned >= 0 on *)
(* it, the visitor was invoked once, no frame was opened or pushed, and    *)
(* b_find returns 0.                                                       *)
(***************************************************************************)
C15_NonDirRoot ==
    ( /\ log # << >>
      /\ b_stat(fs, clean_path, flags) \notin { "dir", "fail" }
      /\ log[1].res >= 0 )
    => /\ Len(log) = 1
       /\ opens = << >> /\ frames = << >> /\ dirs = << >> /\ dir = 0
       /\ pc \in { "cleanup", "returned" }
       /\ pc = "returned" => ret = << 0 >>

C15_Witness ==
    /\ Returned(0)
    /\ b_stat(fs, clean_path, flags) = "file"
    /\ Len(log) = 1 /\ log[1].res > 0 /\ log[1].mode = "file"

(***************************************************************************)
(* C16.  The file type handed to the visitor is lstat's when the           *)
(* FOLLOW_SYMLINKS bit is clear and stat's when it is set, whatever the    *)
(* other bits are: with the bit clear a symlink is reported as a link and  *)
(* is never opened and nothing below it is surfaced; with the bit set it   *)
(* is reported with the type of its target and, when that is a directory   *)
(* the visitor accepted, it is opened.  Every step that reads the flags    *)
(* (the root stat, a read) is the step the call takes with the             *)
(* FOLLOW_SYMLINKS bit alone, so the other bits change neither the         *)
(* invocations nor the return value.                                       *)
(***************************************************************************)
IsLink(p) == NodeMode(fs, Resolve(fs, p), FALSE) = "link"

\* the flags with every bit but FOLLOW_SYMLINKS cleared
FollowBit == IF Follow THEN B_FIND_FOLLOW_SYMLINKS ELSE 0

C16_Reported ==
    \A i \in 1..Len(log) :
        LET e == log[i] IN
        /\ e.mode = NodeMode(fs, Resolve(fs, e.disk), Follow)
        /\ (IsLink(e.disk) /\ ~Follow) =>
              /\ e.mode = "link"
              /\ \A k \in 1..Len(opens) : opens[k].path # e.disk
              /\ \A f \in 1..Len(frames) : frames[f].path # e.disk
              /\ \A j \in 1..Len(log) : ~InSubtree(log[j].disk, e.disk)
        /\ (IsLink(e.disk) /\ Follow) =>
              /\ e.mode = NodeMode(fs, Resolve(fs, e.disk), TRUE)
              /\ (e.mode = "dir" /\ e.res > 0) =>
                    \/ i = Len(log) /\ pc \in { "root_open", "open" }
                    \/ \E k \in 1..Len(opens) : opens[k].path = e.disk

C16_Step ==
    /\ pc = "stat" =>
          LET m == b_stat(fs, clean_path, FollowBit) IN
          IF m = "fail" THEN pc' = "error_stat"
          ELSE pc' = "root_callback" /\ st' = m
    /\ (pc = "loop" /\ Cwd # 0 /\ faults' = faults) =>
          LET r == b_dir_read(fs, frames[Cwd], FollowBit) IN
          /\ (r.kind = "item") = (dirs' = dirs)
          /\ (r.kind = "fail") = (readFails' # readFails)
          /\ pc' = "callback" => item' = r.item

\* C16: what is reported, and every step
C16_FollowBitOnly == [] C16_Reported /\ [][C16_Step]_vars

\* only the meaningless bit is set: the symlink /b to a directory was
\* reported as a link, accepted, not descended into, and /a came next
C16_Witness ==
    /\ flags = 2 * B_FIND_FOLLOW_SYMLINKS
    /\ fs.bKind = "linkdir"
    /\ Returned(0)
    /\ Len(log) = 3
    /\ log[2].disk = << "/", "b" >> /\ log[2].mode = "link" /\ log[2].res > 0
    /\ log[3].disk = << "/", "a" >>
    /\ opens = << [path |-> SLASH, errno |-> "0"] >>

(***************************************************************************)
(* C17.  As stated: b_find returns in the end.  For a finite run: as long  *)
(* as b_find has not returned it has a step to take, so the call never     *)
(* stops anywhere but at a return.                                         *)
(***************************************************************************)
C17_AsClaimed == pc = "returned" \/ ENABLED Next

(***************************************************************************)
(* C18.  A read that fails after readdir yielded an entry (the stat of the *)
(* entry fails, or an allocation) does what a read at the end of the       *)
(* stream does: the visitor is not invoked, the top frame is popped and    *)
(* destroyed once, nothing is recorded on the accumulator, no abort is     *)
(* taken and the loop goes on with the frame below.  No entry whose stat   *)
(* fails is ever surfaced, and a call in which only reads failed returns   *)
(* 0.                                                                      *)
(***************************************************************************)
C18_Step ==
    (pc = "loop" /\ readFails' = readFails + 1) =>
        LET top == Last(dirs) IN
        /\ frames[top].pos < Len(Entries(frames[top].dnode))
        /\ log' = log
        /\ dirs' = SubSeq(dirs, 1, Len(dirs) - 1)
        /\ frames[top].destroyed = 0
        /\ frames'[top].destroyed = 1
        /\ \A f \in 1..Len(frames) : f # top => frames'[f] = frames[f]
        /\ errs' = errs /\ errType' = errType
        /\ failedAt' = failedAt
        /\ item' = NoItem /\ itemsLive' = 0
        /\ pc' = "loop"

C18_Outcome ==
    /\ \A i \in 1..Len(log) :
          NodeMode(fs, Resolve(fs, log[i].disk), Follow) # "fail"
    /\ (pc = "returned" /\ failedAt = "none") => ret = << 0 >>
    /\ (readFails > 0 /\ pc = "loop" /\ dirs # << >>) =>
          frames[Last(dirs)].destroyed = 0

\* C18: the failing read step and what follows from it
C18_ReadFailure == [] C18_Outcome /\ [][C18_Step]_vars

\* /b/c is a dangling symlink and FOLLOW_SYMLINKS is set: the read of c
\* failed, /b was popped with d unread, and the traversal went on with /a
C18_Witness ==
    /\ Follow /\ fs.cKind = "dangling"
    /\ readFails = 1 /\ faults = 0
    /\ Returned(0)
    /\ errs = << >>
    /\ Len(log) = 3
    /\ log[2].disk = << "/", "b" >>
    /\ log[3].disk = << "/", "a" >>

(***************************************************************************)
(* C19.  While b_find is in its main loop the frame stack is an ancestor   *)
(* chain: the bottom frame is the root's, every other frame is for an      *)
(* entry of the directory of the frame below it, one the visitor accepted  *)
(* with > 0 as a directory, and no stacked frame is destroyed.  The entry  *)
(* in hand, and so every entry surfaced, comes from the top frame: its     *)
(* disk path is the top frame's path, a separator unless that path is      *)
(* "/", and the leaf name.                                                 *)
(***************************************************************************)
LoopPcs == { "loop", "callback", "open", "push" }

C19_Chain ==
    pc \in LoopPcs =>
        /\ dir # 0 /\ frames[dir].path = clean_path
        /\ dirs # << >> => dirs[1] = dir
        /\ \A k \in 1..Len(dirs) : frames[dirs[k]].destroyed = 0
        /\ \A k \in 2..Len(dirs) :
              LET f     == frames[dirs[k]]
                  below == frames[dirs[k - 1]]
              IN  /\ Leaf(f.path) \in NamesIn(below.dnode)
                  /\ f.path = ChildPath(below.path, Leaf(f.path))
                  /\ \E i \in 2..Len(log) :
                        /\ log[i].disk = f.path
                        /\ log[i].mode = "dir"
                        /\ log[i].res > 0
        /\ pc # "loop" =>
              /\ dirs # << >>
              /\ item.name \in NamesIn(frames[Last(dirs)].dnode)
              /\ item.path = ChildPath(frames[Last(dirs)].path, item.name)

C19_Surfaced ==
    (pc = "callback" /\ log' # log) =>
        /\ Len(log') = Len(log) + 1
        /\ Last(log').disk = ChildPath(frames[Last(dirs)].path, item.name)
        /\ IF frames[Last(dirs)].path = SLASH
           THEN Last(log').disk = SLASH \o item.name
           ELSE Last(log').disk = frames[Last(dirs)].path \o SLASH \o item.name

\* C19: the stack in every state of the loop, and every invocation
C19_AncestorChain == [] C19_Chain /\ [][C19_Surfaced]_vars

\* two frames are stacked under the root "/" and an entry of /b is in hand
C19_Witness ==
    /\ pc = "callback"
    /\ clean_path = SLASH
    /\ Len(dirs) = 2
    /\ frames[dirs[2]].path = << "/", "b" >>
    /\ item.path = << "/", "b", "/", "d" >>

(***************************************************************************)
(* C20.  At most one entry record is allocated at any moment, and none is  *)
(* whenever b_find is about to read: the record of the previous read was   *)
(* freed, whether its entry was skipped, tolerated after EACCES or         *)
(* descended into.                                                         *)
(***************************************************************************)
C20_OneItem ==
    /\ itemsLive \in { 0, 1 }
    /\ (itemsLive = 1) = (item # NoItem)
    /\ pc = "loop" => itemsLive = 0
    /\ pc \in { "callback", "open", "push" } => itemsLive = 1

\* /b was descended into and its entry c was surfaced and released
C20_Witness ==
    /\ pc = "loop"
    /\ Len(dirs) = 2
    /\ frames[dirs[2]].pos = 3
    /\ Len(log) = 3
    /\ itemsLive = 0
====
